---- MODULE Spec2Model ----
\* Model of proxy-server.py: a single-threaded HTTPServer whose handler
\* (CORSProxyHandler) serves static files, answers CORS preflights and relays
\* GET /proxy?url=<target> to an upstream server.
\*
\* Strings the code inspects with startswith/split/parse_qs are sequences of
\* tokens; the tokenisation is canonical ("/proxy" is always its own token), so
\* a prefix test on tokens is the prefix test on characters.
EXTENDS Integers, Sequences, FiniteSets, TLC

\* ---------------------------------------------------------------- bounds --
NumClients == 2

Clients == 1..NumClients

\* --------------------------------------------------------- request space --
Methods == {"GET", "OPTIONS"}

GoodTarget == <<"http://up/feed">>

BadTarget == <<"notaurl">>

Targets == {GoodTarget, BadTarget}

ProxyQ == <<"/proxy", "?", "url", "=">>

Paths ==
  { <<"/index.html">>,
    <<"/missing">>,
    <<"/proxy", "-server.py">>,
    <<"/proxy">>,
    <<"/proxy", "?", "x", "=", "1">>,
    ProxyQ,
    ProxyQ \o <<"&", "x", "=", "1">> }
  \cup { ProxyQ \o t : t \in Targets }
  \cup { ProxyQ \o <<"&", "url", "=">> \o GoodTarget }

\* Files present in the server's working directory, and their bytes.
Files == { <<"/index.html">>, <<"/proxy", "-server.py">> }

FileBytes(f) == <<"bytes-of">> \o f

\* Upstream answers.
Bodies == { <<"B1">>, <<"B2">> }

UpstreamOkStatus == {200, 201}

UpstreamErrStatus == {404, 503}

\* What the network does to the outbound fetch.
NetKinds ==
  { "ok", "http_error", "dns_failure", "conn_refused", "connect_timeout",
    "header_timeout", "read_timeout" }

NoNet == [kind |-> "none", status |-> 0, body |-> <<>>]

NetOutcomes ==
  { [kind |-> "ok", status |-> s, body |-> b] : s \in UpstreamOkStatus, b \in Bodies }
  \cup { [kind |-> "read_timeout", status |-> 200, body |-> b] : b \in {<<"B1">>} }
  \cup { [kind |-> "http_error", status |-> s, body |-> <<>>] : s \in UpstreamErrStatus }
  \cup { [kind |-> k, status |-> 0, body |-> <<>>] :
           k \in {"dns_failure", "conn_refused", "connect_timeout", "header_timeout"} }

\* ------------------------------------------------------- string helpers --
\* str.startswith
StartsWith(s, p) == Len(s) >= Len(p) /\ SubSeq(s, 1, Len(p)) = p

\* index of the first occurrence of sep in s, 0 when there is none
FirstIndex(s, sep) ==
  IF \E i \in 1..Len(s) : s[i] = sep
  THEN CHOOSE i \in 1..Len(s) : s[i] = sep /\ \A j \in 1..(i - 1) : s[j] # sep
  ELSE 0

\* str.split(sep)
RECURSIVE Split(_, _)
Split(s, sep) ==
  LET i == FirstIndex(s, sep)
  IN IF i = 0 THEN <<s>>
     ELSE <<SubSeq(s, 1, i - 1)>> \o Split(SubSeq(s, i + 1, Len(s)), sep)

\* self.path.split('?', 1)[1]
QueryOf(path) == SubSeq(path, FirstIndex(path, "?") + 1, Len(path))

\* urllib.parse.parse_qs with its defaults (keep_blank_values=False,
\* strict_parsing=False): the (name, value) pairs in order; a field without
\* "=" or with an empty value is dropped.
RECURSIVE QsPairs(_)
QsPairs(fields) ==
  IF fields = <<>> THEN <<>>
  ELSE LET f == Head(fields)
           i == FirstIndex(f, "=")
           rest == QsPairs(Tail(fields))
       IN IF i = 0 \/ i = Len(f) THEN rest
          ELSE <<[name |-> SubSeq(f, 1, i - 1), value |-> SubSeq(f, i + 1, Len(f))]>> \o rest

parse_qs(query) == QsPairs(Split(query, "&"))

\* params.get('url', [''])[0]
TargetUrl(path) ==
  LET ps == parse_qs(QueryOf(path))
      idx == { i \in 1..Len(ps) : ps[i].name = <<"url">> }
  IN IF idx = {} THEN <<>>
     ELSE ps[CHOOSE i \in idx : \A j \in idx : i <= j].value

\* A routing test that takes every path under /proxy for the forwarder
IsProxyRequestLoose(path) == StartsWith(path, <<"/proxy">>)

\* do_GET's routing test
IsProxyRequest(path) == StartsWith(path, ProxyQ)

\* end_headers' test
SkipsInjection(path) == StartsWith(path, <<"/proxy">>)

\* SimpleHTTPRequestHandler.translate_path: the query is not part of the file name
FilePath(path) ==
  LET i == FirstIndex(path, "?")
  IN IF i = 0 THEN path ELSE SubSeq(path, 1, i - 1)

\* urllib.request.Request(target_url): a URL without a scheme raises ValueError
RequestRaises(t) == t = BadTarget

\* ------------------------------------------------------------ exceptions --
\* Python's class hierarchy for the exceptions that occur here.
Bases(cls) ==
  CASE cls = "HTTPError"       -> {"HTTPError", "URLError", "OSError", "Exception"}
    [] cls = "URLError"        -> {"URLError", "OSError", "Exception"}
    [] cls = "TimeoutError"    -> {"TimeoutError", "OSError", "Exception"}
    [] cls = "BrokenPipeError" -> {"BrokenPipeError", "OSError", "Exception"}
    [] cls = "ValueError"      -> {"ValueError", "Exception"}
    [] OTHER                   -> {}

IsInstance(e, cls) == cls \in Bases(e.cls)

NoExc == [cls |-> "none", code |-> 0, str |-> <<>>]

Exc(cls, code, str) == [cls |-> cls, code |-> code, str |-> str]

BrokenPipe == Exc("BrokenPipeError", 0, <<"Broken pipe">>)

\* What urlopen(req, timeout=30) raises for each network condition
\* (urllib wraps only the errors of the connect/send stage in URLError).
UrlopenExc(n) ==
  CASE n.kind = "http_error"      -> Exc("HTTPError", n.status, <<"HTTP Error">>)
    [] n.kind = "dns_failure"     -> Exc("URLError", 0, <<"urlopen error: name resolution">>)
    [] n.kind = "conn_refused"    -> Exc("URLError", 0, <<"urlopen error: connection refused">>)
    [] n.kind = "connect_timeout" -> Exc("URLError", 0, <<"urlopen error: timed out">>)
    [] n.kind = "header_timeout"  -> Exc("TimeoutError", 0, <<"timed out">>)
    [] OTHER                      -> NoExc

\* What response.read() raises
ReadExc(n) ==
  IF n.kind = "read_timeout" THEN Exc("TimeoutError", 0, <<"timed out">>) ELSE NoExc

\* The except clauses with URLError tested before its subclass HTTPError
ExceptCodeUrlErrorFirst(e) ==
  IF IsInstance(e, "URLError") THEN 502
  ELSE IF IsInstance(e, "HTTPError") THEN e.code
  ELSE 500

\* The except clauses of handle_proxy_request, in order
ExceptCode(e) ==
  IF IsInstance(e, "HTTPError") THEN e.code
  ELSE IF IsInstance(e, "URLError") THEN 502
  ELSE 500

ExceptMessage(e) ==
  IF IsInstance(e, "HTTPError") THEN e.str
  ELSE IF IsInstance(e, "URLError") THEN <<"Failed to fetch: ">> \o e.str
  ELSE <<"Server error: ">> \o e.str

\* A server loop that lets a handler's exception escape serve_forever
CaughtByServerNever(e) == FALSE

\* socketserver's _handle_request_noblock: "except Exception: handle_error"
CaughtByServer(e) == IsInstance(e, "Exception")

\* ------------------------------------------------------ response pieces --
StatusLine(code, msg) == [t |-> "status", code |-> code, k |-> "", v |-> msg]

Header(k, v) == [t |-> "header", code |-> 0, k |-> k, v |-> <<v>>]

EndOfHeaders == [t |-> "end", code |-> 0, k |-> "", v |-> <<>>]

BodyBytes(b) == [t |-> "body", code |-> 0, k |-> "", v |-> b]

ACAO == Header("Access-Control-Allow-Origin", "*")

ACAM == Header("Access-Control-Allow-Methods", "GET, OPTIONS")

ACAH == Header("Access-Control-Allow-Headers", "Content-Type")

XmlType == Header("Content-Type", "text/xml; charset=utf-8")

\* A success path that propagates the upstream's status
SuccessStatusRelayed(upstream) == upstream

\* The status the success path reports, given the upstream's own status
SuccessStatus(upstream) == 200

\* A preflight answer that forgets Access-Control-Allow-Methods
PreflightHeadersNoMethods == <<ACAO, ACAH>>

\* The headers do_OPTIONS sends itself
PreflightHeaders == <<ACAO, ACAM, ACAH>>

\* The headers the success path of handle_proxy_request sends itself
SuccessHeaders == <<XmlType, ACAO, ACAM, ACAH>>

\* The state of one handler's output: buf is _headers_buffer, wire what has
\* reached the client socket, issued the status codes given to send_response,
\* open whether the socket still accepts writes, raised whether a write raised.
send_response(st, code, msg) ==
  IF st.raised THEN st
  ELSE [st EXCEPT !.buf = Append(@, StatusLine(code, msg)), !.issued = Append(@, code)]

send_header(st, h) ==
  IF st.raised THEN st ELSE [st EXCEPT !.buf = Append(@, h)]

RECURSIVE send_headers(_, _)
send_headers(st, hs) ==
  IF hs = <<>> THEN st ELSE send_headers(send_header(st, Head(hs)), Tail(hs))

\* wfile.write on the unbuffered socket writer
wfile_write(st, items) ==
  IF st.raised THEN st
  ELSE IF st.open THEN [st EXCEPT !.wire = @ \o items]
  ELSE [st EXCEPT !.raised = TRUE]

\* BaseHTTPRequestHandler.end_headers / flush_headers: the buffer is cleared
\* only after the write succeeded
base_end_headers(st) ==
  IF st.raised THEN st
  ELSE LET full == Append(st.buf, EndOfHeaders)
       IN IF st.open THEN [st EXCEPT !.wire = @ \o full, !.buf = <<>>]
          ELSE [st EXCEPT !.buf = full, !.raised = TRUE]

\* CORSProxyHandler.end_headers
end_headers(st, path) ==
  base_end_headers(IF ~SkipsInjection(path) THEN send_header(st, ACAO) ELSE st)

\* Statuses for which send_error sends no body
NoBodyStatus(code) == code < 200 \/ code \in {204, 205, 304}

\* BaseHTTPRequestHandler.send_error (the command is never HEAD here)
send_error(st, code, msg, path) ==
  LET s1 == send_header(send_response(st, code, msg), Header("Connection", "close"))
      s2 == IF NoBodyStatus(code) THEN s1
            ELSE send_header(s1, Header("Content-Type", "text/html;charset=utf-8"))
      s3 == end_headers(s2, path)
  IN IF NoBodyStatus(code) THEN s3 ELSE wfile_write(s3, <<BodyBytes(msg)>>)

\* SimpleHTTPRequestHandler.do_GET for a path that names a file or nothing
static_get(st, path) ==
  LET f == FilePath(path)
  IN IF f \in Files
     THEN wfile_write(
            end_headers(
              send_header(send_response(st, 200, <<"OK">>),
                          Header("Content-type", "application/octet-stream")),
              path),
            <<BodyBytes(FileBytes(f))>>)
     ELSE send_error(st, 404, <<"File not found">>, path)

\* ------------------------------------------------------------------ state --
VARIABLES
  running,     \* the process is inside server.serve_forever()
  conn,        \* per client: "closed", "queued" (in the listen backlog), "handling"
  backlog,     \* connections waiting to be accepted, oldest first
  cur,         \* the client whose request is being handled, 0 when none
  pc,          \* where the server is: "idle" in the accept loop, else a handler position
  req,         \* the parsed request line: method and path
  net,         \* what the network did to the outbound fetch of this request
  content,     \* the upstream body read into memory
  exc,         \* the exception last raised in the handler
  hdrBuf,      \* _headers_buffer of the handler
  wire,        \* per client: what has been written to the client's socket
  issued,      \* the status codes passed to send_response for this request
  connOpen,    \* the client's socket still accepts writes
  fsLookup,    \* the static file server looked the path up on disk
  prevFailed   \* history: an earlier request ended in an error response or exception

vars ==
  <<running, conn, backlog, cur, pc, req, net, content, exc, hdrBuf, wire, issued,
    connOpen, fsLookup, prevFailed>>

NoReq == [method |-> "", path |-> <<>>]

Init ==
  /\ running = TRUE
  /\ conn = [c \in Clients |-> "closed"]
  /\ backlog = <<>>
  /\ cur = 0
  /\ pc = "idle"
  /\ req = NoReq
  /\ net = NoNet
  /\ content = <<>>
  /\ exc = NoExc
  /\ hdrBuf = <<>>
  /\ wire = [c \in Clients |-> <<>>]
  /\ issued = <<>>
  /\ connOpen = FALSE
  /\ fsLookup = FALSE
  /\ prevFailed = FALSE

\* The handler's output state before a step, and its write-back after it
St ==
  [buf |-> hdrBuf, wire |-> wire[cur], issued |-> issued, open |-> connOpen, raised |-> FALSE]

Commit(st) ==
  /\ hdrBuf' = st.buf
  /\ wire' = [wire EXCEPT ![cur] = st.wire]
  /\ issued' = st.issued

\* A threading server: a new connection is taken while a request is in progress
ServerIdleThreaded == TRUE

\* HTTPServer is the plain socketserver.TCPServer: serve_forever handles one
\* request to completion before it selects on the listening socket again.
ServerIdle == pc = "idle"

\* ---------------------------------------------------------------- clients --
ClientConnect(c) ==
  /\ running
  /\ conn[c] = "closed"
  /\ conn' = [conn EXCEPT ![c] = "queued"]
  /\ backlog' = Append(backlog, c)
  /\ UNCHANGED <<running, cur, pc, req, net, content, exc, hdrBuf, wire, issued,
                 connOpen, fsLookup, prevFailed>>

\* The client whose request is being handled goes away
ClientDisconnect ==
  /\ pc \in {"parse", "dispatch", "urlopen", "read", "respond", "write", "except"}
  /\ connOpen
  /\ connOpen' = FALSE
  /\ UNCHANGED <<running, conn, backlog, cur, pc, req, net, content, exc, hdrBuf, wire,
                 issued, fsLookup, prevFailed>>

\* ----------------------------------------------------------------- server --
\* serve_forever -> _handle_request_noblock -> get_request
Accept ==
  /\ running
  /\ ServerIdle
  /\ backlog # <<>>
  /\ cur' = Head(backlog)
  /\ backlog' = Tail(backlog)
  /\ conn' = [conn EXCEPT ![Head(backlog)] = "handling"]
  /\ pc' = "parse"
  /\ connOpen' = TRUE
  /\ req' = NoReq
  /\ net' = NoNet
  /\ content' = <<>>
  /\ exc' = NoExc
  /\ hdrBuf' = <<>>
  /\ issued' = <<>>
  /\ fsLookup' = FALSE
  /\ UNCHANGED <<running, wire, prevFailed>>

\* handle_one_request: the request line is read from the accepted socket
ParseRequest ==
  /\ pc = "parse"
  /\ \E m \in Methods, p \in Paths : req' = [method |-> m, path |-> p]
  /\ pc' = "dispatch"
  /\ UNCHANGED <<running, conn, backlog, cur, net, content, exc, hdrBuf, wire, issued,
                 connOpen, fsLookup, prevFailed>>

do_OPTIONS ==
  /\ pc = "dispatch"
  /\ req.method = "OPTIONS"
  /\ LET st == end_headers(send_headers(send_response(St, 200, <<"OK">>), PreflightHeaders),
                           req.path)
     IN /\ Commit(st)
        /\ pc' = IF st.raised THEN "raised" ELSE "returned"
        /\ exc' = IF st.raised THEN BrokenPipe ELSE exc
  /\ UNCHANGED <<running, conn, backlog, cur, req, net, content, connOpen, fsLookup,
                 prevFailed>>

\* do_GET, else branch: super().do_GET()
do_GET_static ==
  /\ pc = "dispatch"
  /\ req.method = "GET"
  /\ ~IsProxyRequest(req.path)
  /\ LET st == static_get(St, req.path)
     IN /\ Commit(st)
        /\ pc' = IF st.raised THEN "raised" ELSE "returned"
        /\ exc' = IF st.raised THEN BrokenPipe ELSE exc
  /\ fsLookup' = TRUE
  /\ UNCHANGED <<running, conn, backlog, cur, req, net, content, connOpen, prevFailed>>

\* handle_proxy_request up to "if not target_url: send_error(400); return"
proxy_missing_url ==
  /\ pc = "dispatch"
  /\ req.method = "GET"
  /\ IsProxyRequest(req.path)
  /\ TargetUrl(req.path) = <<>>
  /\ LET st == send_error(St, 400, <<"Missing url parameter">>, req.path)
     IN /\ Commit(st)
        /\ pc' = IF st.raised THEN "except" ELSE "returned"
        /\ exc' = IF st.raised THEN BrokenPipe ELSE exc
  /\ UNCHANGED <<running, conn, backlog, cur, req, net, content, connOpen, fsLookup,
                 prevFailed>>

\* handle_proxy_request up to the call of urlopen, in which the server blocks
proxy_build_request ==
  /\ pc = "dispatch"
  /\ req.method = "GET"
  /\ IsProxyRequest(req.path)
  /\ TargetUrl(req.path) # <<>>
  /\ IF RequestRaises(TargetUrl(req.path))
     THEN /\ exc' = Exc("ValueError", 0, <<"unknown url type">>)
          /\ pc' = "except"
     ELSE /\ exc' = exc
          /\ pc' = "urlopen"
  /\ UNCHANGED <<running, conn, backlog, cur, req, net, content, hdrBuf, wire, issued,
                 connOpen, fsLookup, prevFailed>>

\* urlopen returns a response object: the upstream's headers have arrived
urlopen_returns ==
  /\ pc = "urlopen"
  /\ \E n \in NetOutcomes :
       /\ UrlopenExc(n) = NoExc
       /\ net' = n
  /\ pc' = "read"
  /\ UNCHANGED <<running, conn, backlog, cur, req, content, exc, hdrBuf, wire, issued,
                 connOpen, fsLookup, prevFailed>>

urlopen_raises ==
  /\ pc = "urlopen"
  /\ \E n \in NetOutcomes :
       /\ UrlopenExc(n) # NoExc
       /\ net' = n
       /\ exc' = UrlopenExc(n)
  /\ pc' = "except"
  /\ UNCHANGED <<running, conn, backlog, cur, req, content, hdrBuf, wire, issued,
                 connOpen, fsLookup, prevFailed>>

\* content = response.read()
read_body ==
  /\ pc = "read"
  /\ IF ReadExc(net) # NoExc
     THEN /\ exc' = ReadExc(net)
          /\ content' = content
          /\ pc' = "except"
     ELSE /\ exc' = exc
          /\ content' = net.body
          /\ pc' = "respond"
  /\ UNCHANGED <<running, conn, backlog, cur, req, net, hdrBuf, wire, issued, connOpen,
                 fsLookup, prevFailed>>

\* send_response(200) ... end_headers() of the success path
send_success_headers ==
  /\ pc = "respond"
  /\ LET st == end_headers(
                 send_headers(send_response(St, SuccessStatus(net.status), <<"OK">>),
                              SuccessHeaders),
                 req.path)
     IN /\ Commit(st)
        /\ pc' = IF st.raised THEN "except" ELSE "write"
        /\ exc' = IF st.raised THEN BrokenPipe ELSE exc
  /\ UNCHANGED <<running, conn, backlog, cur, req, net, content, connOpen, fsLookup,
                 prevFailed>>

\* self.wfile.write(content), still inside the try block
write_content ==
  /\ pc = "write"
  /\ LET st == wfile_write(St, <<BodyBytes(content)>>)
     IN /\ Commit(st)
        /\ pc' = IF st.raised THEN "except" ELSE "returned"
        /\ exc' = IF st.raised THEN BrokenPipe ELSE exc
  /\ UNCHANGED <<running, conn, backlog, cur, req, net, content, connOpen, fsLookup,
                 prevFailed>>

\* The except clauses: each answers with send_error; an exception raised by
\* send_error itself leaves the handler
except_handler ==
  /\ pc = "except"
  /\ LET st == send_error(St, ExceptCode(exc), ExceptMessage(exc), req.path)
     IN /\ Commit(st)
        /\ pc' = IF st.raised THEN "raised" ELSE "returned"
        /\ exc' = IF st.raised THEN BrokenPipe ELSE exc
  /\ UNCHANGED <<running, conn, backlog, cur, req, net, content, connOpen, fsLookup,
                 prevFailed>>

\* The request ended in something other than one clean 200
EndedInFailure == pc = "raised" \/ issued # <<200>>

\* The connection is closed and the handler object dropped
CloseConnection ==
  /\ conn' = [conn EXCEPT ![cur] = "closed"]
  /\ wire' = [wire EXCEPT ![cur] = <<>>]
  /\ cur' = 0
  /\ pc' = "idle"
  /\ req' = NoReq
  /\ net' = NoNet
  /\ content' = <<>>
  /\ exc' = NoExc
  /\ hdrBuf' = <<>>
  /\ issued' = <<>>
  /\ connOpen' = FALSE
  /\ fsLookup' = FALSE
  /\ prevFailed' = (prevFailed \/ EndedInFailure)

\* The handler returned: shutdown_request, back to the accept loop
shutdown_request ==
  /\ pc = "returned"
  /\ CloseConnection
  /\ UNCHANGED <<running, backlog>>

\* The handler raised: the server reports the error and carries on
handle_error ==
  /\ pc = "raised"
  /\ IF CaughtByServer(exc)
     THEN /\ CloseConnection
          /\ UNCHANGED <<running, backlog>>
     ELSE /\ running' = FALSE
          /\ pc' = "crashed"
          /\ UNCHANGED <<conn, backlog, cur, req, net, content, exc, hdrBuf, wire, issued,
                         connOpen, fsLookup, prevFailed>>

Next ==
  \/ \E c \in Clients : ClientConnect(c)
  \/ ClientDisconnect
  \/ Accept
  \/ ParseRequest
  \/ do_OPTIONS
  \/ do_GET_static
  \/ proxy_missing_url
  \/ proxy_build_request
  \/ urlopen_returns
  \/ urlopen_raises
  \/ read_body
  \/ send_success_headers
  \/ write_content
  \/ except_handler
  \/ shutdown_request
  \/ handle_error

Spec == Init /\ [][Next]_vars

\* ------------------------------------------------------------ observation --
\* The handler of the current request has finished, normally or by raising
Done == pc \in {"returned", "raised"}

Returned == pc = "returned"

ProxyGet == req.method = "GET" /\ IsProxyRequest(req.path)

Items(w, kind) == SelectSeq(w, LAMBDA x : x.t = kind)

HeaderSet(w) == { w[i] : i \in { j \in 1..Len(w) : w[j].t = "header" } }

StatusCodes(w) == [i \in 1..Len(Items(w, "status")) |-> Items(w, "status")[i].code]

Bodies_(w) == [i \in 1..Len(Items(w, "body")) |-> Items(w, "body")[i].v]

CorsHeaders == {ACAO, ACAM, ACAH}

Contains(msg, tok) == \E i \in 1..Len(msg) : msg[i] = tok

\* The response each request gets, written out as a table of the request and
\* the upstream's answer only.
ErrorResponse(code, msg, path) ==
  <<StatusLine(code, msg), Header("Connection", "close"),
    Header("Content-Type", "text/html;charset=utf-8")>>
  \o (IF path[1] = "/proxy" THEN <<>> ELSE <<ACAO>>)
  \o <<EndOfHeaders, BodyBytes(msg)>>

ExpectedResponse(r, n) ==
  IF r.method = "OPTIONS"
  THEN <<StatusLine(200, <<"OK">>), ACAO, ACAM, ACAH>>
       \o (IF r.path[1] = "/proxy" THEN <<>> ELSE <<ACAO>>) \o <<EndOfHeaders>>
  ELSE IF r.path \in {<<"/index.html">>, <<"/proxy", "-server.py">>}
  THEN <<StatusLine(200, <<"OK">>), Header("Content-type", "application/octet-stream")>>
       \o (IF r.path[1] = "/proxy" THEN <<>> ELSE <<ACAO>>)
       \o <<EndOfHeaders, BodyBytes(<<"bytes-of">> \o r.path)>>
  ELSE IF r.path \in {<<"/missing">>, <<"/proxy">>, <<"/proxy", "?", "x", "=", "1">>}
  THEN ErrorResponse(404, <<"File not found">>, r.path)
  ELSE IF r.path \in {ProxyQ, ProxyQ \o <<"&", "x", "=", "1">>}
  THEN ErrorResponse(400, <<"Missing url parameter">>, r.path)
  ELSE IF r.path = ProxyQ \o BadTarget
  THEN ErrorResponse(500, <<"Server error: ", "unknown url type">>, r.path)
  ELSE CASE n.kind = "ok" ->
              <<StatusLine(200, <<"OK">>), XmlType, ACAO, ACAM, ACAH, EndOfHeaders,
                BodyBytes(n.body)>>
         [] n.kind = "http_error" -> ErrorResponse(n.status, <<"HTTP Error">>, r.path)
         [] n.kind = "dns_failure" ->
              ErrorResponse(502, <<"Failed to fetch: ", "urlopen error: name resolution">>, r.path)
         [] n.kind = "conn_refused" ->
              ErrorResponse(502, <<"Failed to fetch: ", "urlopen error: connection refused">>, r.path)
         [] n.kind = "connect_timeout" ->
              ErrorResponse(502, <<"Failed to fetch: ", "urlopen error: timed out">>, r.path)
         [] n.kind \in {"header_timeout", "read_timeout"} ->
              ErrorResponse(500, <<"Server error: ", "timed out">>, r.path)

\* ------------------------------------------------------------------ claims --
\* C1: every OPTIONS request, whatever its path, is answered with status 200,
\* no body and the three CORS headers, and neither fetches nor looks up a file.
\* (When the client has gone away nothing reaches it.)
C1_PreflightAlways200 ==
  (Done /\ req.method = "OPTIONS") =>
    /\ issued = <<200>>
    /\ net = NoNet
    /\ ~fsLookup
    /\ Bodies_(wire[cur]) = <<>>
    /\ Returned =>
         /\ StatusCodes(wire[cur]) = <<200>>
         /\ CorsHeaders \subseteq HeaderSet(wire[cur])
         /\ wire[cur][Len(wire[cur])] = EndOfHeaders
    /\ pc = "raised" => wire[cur] = <<>>

C1_Witness ==
  /\ Returned
  /\ req.method = "OPTIONS"
  /\ req.path = ProxyQ \o GoodTarget
  /\ StatusCodes(wire[cur]) = <<200>>

\* C2: a proxy GET whose fetch succeeds with body B is answered 200 (whatever
\* the upstream's success status), text/xml, the three CORS headers, body B.
C2_ProxySuccessRelay ==
  (Done /\ ProxyGet /\ net.kind = "ok") =>
    /\ issued # <<>> /\ issued[1] = 200
    /\ Returned =>
         /\ StatusCodes(wire[cur]) = <<200>>
         /\ XmlType \in HeaderSet(wire[cur])
         /\ CorsHeaders \subseteq HeaderSet(wire[cur])
         /\ Bodies_(wire[cur]) = <<net.body>>
    /\ StatusCodes(wire[cur]) \in {<<>>, <<200>>}
    /\ Bodies_(wire[cur]) \in {<<>>, <<net.body>>}

C2_Witness ==
  /\ Returned
  /\ ProxyGet
  /\ net.kind = "ok"
  /\ net.status = 201
  /\ Bodies_(wire[cur]) = <<<<"B2">>>>

\* C3 (as claimed): every completed response other than the relay of an
\* upstream error status carries all three CORS headers.
C3_Original ==
  (Returned /\ ~(ProxyGet /\ net.kind = "http_error")) =>
    CorsHeaders \subseteq HeaderSet(wire[cur])

\* C4 (as claimed): a GET that is not routed to the forwarder and names an
\* existing file is answered 200 with the file's bytes and
\* Access-Control-Allow-Origin: *.
C4_Original ==
  (Returned /\ req.method = "GET" /\ ~IsProxyRequest(req.path)
     /\ FilePath(req.path) \in Files) =>
    /\ StatusCodes(wire[cur]) = <<200>>
    /\ Bodies_(wire[cur]) = <<FileBytes(FilePath(req.path))>>
    /\ ACAO \in HeaderSet(wire[cur])

\* The url parameter as the claim reads it: absent or empty
UrlAbsentOrEmpty(path) ==
  FirstIndex(path, "?") = 0 \/ TargetUrl(path) = <<>>

\* C5 (as claimed): a GET to /proxy whose url parameter is absent or empty is
\* answered 400 "Missing url parameter" without an outbound fetch.
C5_Original ==
  (Done /\ req.method = "GET" /\ FilePath(req.path) = <<"/proxy">>
     /\ UrlAbsentOrEmpty(req.path)) =>
    /\ issued # <<>> /\ issued[1] = 400
    /\ net = NoNet

\* C5 (amended): a GET whose path starts with /proxy?url= and whose query holds
\* no non-empty url value is answered 400 "Missing url parameter" without an
\* outbound fetch; /proxy and /proxy?x=1 do not start with that prefix and get
\* the static file server's answer, also without an outbound fetch.
C5_MissingUrlOnProxyRoute ==
  /\ (Done /\ ProxyGet /\ TargetUrl(req.path) = <<>>) =>
       /\ issued # <<>> /\ issued[1] = 400
       /\ net = NoNet
       /\ ~fsLookup
       /\ Returned =>
            /\ wire[cur][1] = StatusLine(400, <<"Missing url parameter">>)
            /\ StatusCodes(wire[cur]) = <<400>>
       /\ pc = "raised" => wire[cur] = <<>>
  /\ (Done /\ req.method = "GET"
        /\ req.path \in {<<"/proxy">>, <<"/proxy", "?", "x", "=", "1">>}) =>
       /\ fsLookup
       /\ issued = <<404>>
       /\ net = NoNet

C5_Witness ==
  /\ Returned
  /\ req.method = "GET"
  /\ req.path = ProxyQ \o <<"&", "x", "=", "1">>
  /\ StatusCodes(wire[cur]) = <<400>>

\* C6: when the upstream answers a proxy GET with an error status S, the
\* status sent to the client is exactly S and nothing is relayed as a success.
C6_UpstreamStatusRelayed ==
  (Done /\ ProxyGet /\ net.kind = "http_error") =>
    /\ issued = <<net.status>>
    /\ content = <<>>
    /\ Returned => StatusCodes(wire[cur]) = <<net.status>>
    /\ StatusCodes(wire[cur]) \in {<<>>, <<net.status>>}

C6_Witness ==
  /\ Returned
  /\ ProxyGet
  /\ net.kind = "http_error"
  /\ StatusCodes(wire[cur]) = <<404>>

NetworkFailures == {"dns_failure", "conn_refused", "connect_timeout", "read_timeout"}

\* C7 (as claimed): a fetch that fails at network level, the timeout while
\* reading the body included, is answered 502 "Failed to fetch"; 500 is never
\* the answer to a network-level failure.
C7_Original ==
  (Done /\ ProxyGet /\ net.kind \in NetworkFailures) =>
    /\ issued # <<>> /\ issued[1] = 502
    /\ Returned =>
         /\ StatusCodes(wire[cur]) = <<502>>
         /\ Contains(wire[cur][1].v, "Failed to fetch: ")

\* What C8 says of every state: the process is alive, the idle server holds
\* nothing of a finished request, and a completed response is the table's.
C8_StateInv ==
  /\ running
  /\ pc # "crashed"
  /\ pc = "idle" =>
       /\ cur = 0
       /\ req = NoReq /\ net = NoNet /\ content = <<>> /\ exc = NoExc
       /\ hdrBuf = <<>> /\ issued = <<>> /\ ~fsLookup
       /\ \A c \in Clients : wire[c] = <<>>
  /\ Returned => wire[cur] = ExpectedResponse(req, net)

\* C8: whatever the earlier requests did (success, 400, upstream status, 502,
\* 500, static 404, a handler that raised), the server keeps running, its next
\* step after a finished handler is back to the accept loop with nothing left
\* of that request, and a completed response is the one the table gives for
\* this request and this upstream answer alone.
C8_ServerSurvivesAndForgets ==
  /\ []C8_StateInv
  /\ [][Done => (pc' = pc \/ (pc' = "idle" /\ running' /\ cur' = 0))]_vars

C8_Witness ==
  /\ prevFailed
  /\ Returned
  /\ ProxyGet
  /\ net.kind = "ok"
  /\ wire[cur] = ExpectedResponse(req, net)

Handling == { c \in Clients : conn[c] = "handling" }

\* C9: at most one connection is being handled at any time; while a request is
\* in progress (blocked in the fetch included) the other clients wait in the
\* backlog and nothing is written to them.
C9_OneRequestAtATime ==
  /\ Cardinality(Handling) <= 1
  /\ pc # "idle" => Handling = {cur}
  /\ pc = "idle" => Handling = {}
  /\ \A c \in Clients :
       /\ conn[c] = "queued" <=> \E i \in 1..Len(backlog) : backlog[i] = c
       /\ c # cur => wire[c] = <<>>

C9_Witness ==
  /\ pc = "urlopen"
  /\ \E c \in Clients : conn[c] = "queued"
  /\ C9_OneRequestAtATime

====
